---- MODULE Spec2Model ----
(***************************************************************************)
(* A model of the amiquip core: the per-channel ContentCollector           *)
(* (src/src/io_loop/content_collector.rs), the Channel handle              *)
(* (src/src/channel.rs) and the IoLoopHandle through which application     *)
(* threads talk to the I/O loop (src/src/io_loop/io_loop_handle.rs).       *)
(*                                                                         *)
(* The specifications of the module:                                       *)
(*   SpecCollector     one fresh ContentCollector fed arbitrary frames;    *)
(*   SpecCollectorMid  the same, also met in the middle of a content;      *)
(*   Spec              channel handles, the loop-bound queue, the reply    *)
(*                     channels and the I/O loop;                          *)
(*   FairSpec          Spec with fairly scheduled threads.                 *)
(***************************************************************************)
EXTENDS Integers, Sequences, FiniteSets, TLC

(***************************************************************************)
(* Bounds of the model.                                                    *)
(***************************************************************************)
\* calls made to one collector before it is replaced by a fresh one
MaxCalls == 4
\* largest body_size a content header declares
MaxBodySize == 2
\* longest body fragment carried by one body frame
MaxFrag == 2

(***************************************************************************)
(* Input domains of the collector.                                         *)
(***************************************************************************)
Bytes == {1, 2}

\* basic.deliver methods (amq_protocol::protocol::basic::Deliver)
Delivers ==
    { [consumer_tag |-> "ctag-1", delivery_tag |-> 7],
      [consumer_tag |-> "ctag-2", delivery_tag |-> 8] }

Properties == {"props-a", "props-b"}

\* content headers (amq_protocol::frame::AMQPContentHeader)
Headers == [body_size : 0..MaxBodySize, properties : Properties]

\* body fragments: every byte string of one byte value, of length 0..MaxFrag
Fragments == { [i \in 1..n |-> b] : n \in 0..MaxFrag, b \in Bytes }

NoDeliver == [consumer_tag |-> "", delivery_tag |-> 0]
NoHeader == [body_size |-> 0, properties |-> ""]

(***************************************************************************)
(* ContentCollector.kind : Option<Kind>, Kind::Delivery(State<Delivery>),  *)
(* State::Start(start) | State::Body(start, header, buf).                  *)
(***************************************************************************)
KindNone == [tag |-> "None", start |-> NoDeliver, header |-> NoHeader, buf |-> <<>>]

StateStart(start) ==
    [tag |-> "Start", start |-> start, header |-> NoHeader, buf |-> <<>>]

StateBody(start, header, buf) ==
    [tag |-> "Body", start |-> start, header |-> header, buf |-> buf]

\* Delivery::new(start, buf, properties) : (consumer tag, Delivery)
DeliveryNew(start, buf, properties) ==
    [consumer_tag |-> start.consumer_tag,
     delivery_tag |-> start.delivery_tag,
     body |-> buf,
     properties |-> properties]

\* Content<T>: Done(finish) | NeedMore(state); Err(FrameUnexpected) is the
\* third outcome of the Result that wraps it.
ContentDone(finish) == [tag |-> "Done", finish |-> <<finish>>, state |-> KindNone]
ContentNeedMore(state) == [tag |-> "NeedMore", finish |-> <<>>, state |-> state]
ContentErr == [tag |-> "FrameUnexpected", finish |-> <<>>, state |-> KindNone]

\* Result<Option<CollectorResult>>: emitted holds zero or one delivery
ResOk(emitted) == [status |-> "Ok", emitted |-> emitted]
ResFrameUnexpected == [status |-> "FrameUnexpected", emitted |-> <<>>]

\* State::collect_header
StateCollectHeader_NoZeroCase(state, header) ==
    IF state.tag = "Start"
    THEN ContentNeedMore(StateBody(state.start, header, <<>>))
    ELSE ContentErr

StateCollectHeader(state, header) ==
    IF state.tag = "Start"
    THEN IF header.body_size = 0
         THEN ContentDone(DeliveryNew(state.start, <<>>, header.properties))
         ELSE ContentNeedMore(StateBody(state.start, header, <<>>))
    ELSE ContentErr

\* State::collect_body
StateCollectBody_Prepend(state, body) ==
    IF state.tag = "Body"
    THEN LET buf == body \o state.buf
             body_size == state.header.body_size
         IN IF Len(buf) = body_size
            THEN ContentDone(DeliveryNew(state.start, buf, state.header.properties))
            ELSE IF Len(buf) < body_size
                 THEN ContentNeedMore(StateBody(state.start, state.header, buf))
                 ELSE ContentErr
    ELSE ContentErr

StateCollectBody_NoOverflowCheck(state, body) ==
    IF state.tag = "Body"
    THEN LET buf == state.buf \o body
             body_size == state.header.body_size
         IN IF Len(buf) = body_size
            THEN ContentDone(DeliveryNew(state.start, buf, state.header.properties))
            ELSE ContentNeedMore(StateBody(state.start, state.header, buf))
    ELSE ContentErr

StateCollectBody(state, body) ==
    IF state.tag = "Body"
    THEN LET buf == state.buf \o body
             body_size == state.header.body_size
         IN IF Len(buf) = body_size
            THEN ContentDone(DeliveryNew(state.start, buf, state.header.properties))
            ELSE IF Len(buf) < body_size
                 THEN ContentNeedMore(StateBody(state.start, state.header, buf))
                 ELSE ContentErr
    ELSE ContentErr

\* the match on state.collect_xxx(..)? shared by collect_header and
\* collect_body: self.kind was taken (is None) when the arm runs
CollectorArm(content) ==
    IF content.tag = "Done"
    THEN [kind |-> KindNone, res |-> ResOk(content.finish)]
    ELSE IF content.tag = "NeedMore"
         THEN [kind |-> content.state, res |-> ResOk(<<>>)]
         ELSE [kind |-> KindNone, res |-> ResFrameUnexpected]

\* ContentCollector::collect_deliver
CollectDeliver_Overwrite(k, deliver) ==
    [kind |-> StateStart(deliver), res |-> ResOk(<<>>)]

CollectDeliver(k, deliver) ==
    IF k.tag = "None"
    THEN [kind |-> StateStart(deliver), res |-> ResOk(<<>>)]
    ELSE [kind |-> KindNone, res |-> ResFrameUnexpected]

\* ContentCollector::collect_header
CollectHeader_KeepsStateOnError(k, header) ==
    IF k.tag # "None"
    THEN LET r == CollectorArm(StateCollectHeader(k, header))
         IN IF r.res = ResFrameUnexpected THEN [kind |-> k, res |-> r.res] ELSE r
    ELSE [kind |-> KindNone, res |-> ResFrameUnexpected]

CollectHeader(k, header) ==
    IF k.tag # "None"
    THEN CollectorArm(StateCollectHeader(k, header))
    ELSE [kind |-> KindNone, res |-> ResFrameUnexpected]

\* ContentCollector::collect_body
CollectBody_StateNotRestored(k, body) ==
    IF k.tag # "None"
    THEN LET r == CollectorArm(StateCollectBody(k, body))
         IN [kind |-> KindNone, res |-> r.res]
    ELSE [kind |-> KindNone, res |-> ResFrameUnexpected]

CollectBody(k, body) ==
    IF k.tag # "None"
    THEN CollectorArm(StateCollectBody(k, body))
    ELSE [kind |-> KindNone, res |-> ResFrameUnexpected]

(***************************************************************************)
(* Channel handles and the I/O loop: values.                               *)
(***************************************************************************)
\* operations the application threads issue in all
MaxOps == 2
\* capacity of the bounded loop-bound message queue
QueueCap == 2

\* channel ids; each channel is used by one application thread
Handles == {1, 2}

\* channel.close / connection.close frames the broker may send
Closes == { [reply_code |-> 406, reply_text |-> "PRECONDITION_FAILED"] }

\* ErrorKind
NoError == [kind |-> "none", id |-> 0, code |-> 0, text |-> ""]
FrameUnexpected == [kind |-> "FrameUnexpected", id |-> 0, code |-> 0, text |-> ""]
EventLoopDropped == [kind |-> "EventLoopDropped", id |-> 0, code |-> 0, text |-> ""]
ServerClosedChannel(id, code, text) ==
    [kind |-> "ServerClosedChannel", id |-> id, code |-> code, text |-> text]
ServerClosedConnection(code, text) ==
    [kind |-> "ServerClosedConnection", id |-> 0, code |-> code, text |-> text]

\* ChannelMessage::Method(_) | ChannelMessage::ConsumeOk(_, _)
ChannelMessages == {"Method", "ConsumeOk"}

\* Result<ChannelMessage>, the items of a reply channel
ReplyOk(msg) == [ok |-> TRUE, msg |-> msg, err |-> NoError]
ReplyErr(e) == [ok |-> FALSE, msg |-> "", err |-> e]

\* Result<T> of a handle operation
Ok(val) == [status |-> "Ok", val |-> val, err |-> NoError]
Err(e) == [status |-> "Err", val |-> "", err |-> e]
Panic == [status |-> "Panic", val |-> "", err |-> NoError]
NoResult == [status |-> "none", val |-> "", err |-> NoError]

\* IoLoopMessage::Rpc(IoLoopRpc::Send(buf)): buf holds one method frame, one
\* content header frame or the body frames of one content. op numbers the
\* handle operation that staged it; sync says a reply is awaited.
Message(ch, op, frame, method, sync) ==
    [ch |-> ch, op |-> op, frame |-> frame, method |-> method, sync |-> sync]

\* the frames a message puts on the wire
WireFrame(m) == [ch |-> m.ch, op |-> m.op, frame |-> m.frame, method |-> m.method]

\* ServerClosedError { is_closed, error }
ServerClosedDefault == [is_closed |-> FALSE, error |-> <<>>]

\* ChannelHandle::set_server_closed, the store under the mutex
SetServerClosedStoreError_FlagFirst(sc, id, close) ==
    [sc EXCEPT !.is_closed = TRUE]

SetServerClosedStoreError(sc, id, close) ==
    [sc EXCEPT !.error =
        <<ServerClosedChannel(id, close.reply_code, close.reply_text)>>]

\* ChannelHandle::set_server_closed, is_closed.store(true)
SetServerClosedStoreFlag(sc) == [sc EXCEPT !.is_closed = TRUE]

\* Channel::check_server_closed, the load of is_closed
CheckIsClosed_NeverClosed(sc) == FALSE

CheckIsClosed(sc) == sc.is_closed

\* Channel::check_server_closed, error.clone().unwrap() under the mutex
CheckReadError(sc) ==
    IF sc.error = <<>> THEN Panic ELSE Err(sc.error[1])

\* crossbeam Receiver::recv as used by IoLoopHandle::recv: the next queued
\* item; Err(EventLoopDropped) once the channel is empty and the sender is
\* gone; blocked otherwise
Recv_SkipErrors(rq, senderAlive) ==
    IF rq # <<>> /\ Head(rq).ok
    THEN [blocked |-> FALSE, res |-> Head(rq), rest |-> Tail(rq)]
    ELSE IF ~senderAlive /\ rq = <<>>
         THEN [blocked |-> FALSE, res |-> ReplyErr(EventLoopDropped), rest |-> rq]
         ELSE [blocked |-> TRUE, res |-> ReplyErr(NoError), rest |-> rq]

Recv_OkOnDisconnect(rq, senderAlive) ==
    IF rq # <<>>
    THEN [blocked |-> FALSE, res |-> Head(rq), rest |-> Tail(rq)]
    ELSE IF ~senderAlive
         THEN [blocked |-> FALSE, res |-> ReplyOk("Method"), rest |-> rq]
         ELSE [blocked |-> TRUE, res |-> ReplyErr(NoError), rest |-> rq]

Recv(rq, senderAlive) ==
    IF rq # <<>>
    THEN [blocked |-> FALSE, res |-> Head(rq), rest |-> Tail(rq)]
    ELSE IF ~senderAlive
         THEN [blocked |-> FALSE, res |-> ReplyErr(EventLoopDropped), rest |-> rq]
         ELSE [blocked |-> TRUE, res |-> ReplyErr(NoError), rest |-> rq]

\* mio SyncSender::send as used by IoLoopHandle::send: the message goes to
\* the back of the loop-bound queue
Enqueue_Front(q, message) == <<message>> \o q

Enqueue(q, message) == Append(q, message)

\* IoLoopHandle::send: enqueue, blocking while the queue is full; when the
\* loop's receiver is gone, recv() decides the error
Send(q, alive, message, rq, senderAlive) ==
    IF alive
    THEN IF Len(q) < QueueCap
         THEN [blocked |-> FALSE, res |-> Ok(""), queue |-> Enqueue(q, message),
               rest |-> rq]
         ELSE [blocked |-> TRUE, res |-> NoResult, queue |-> q, rest |-> rq]
    ELSE LET r == Recv(rq, senderAlive)
         IN [blocked |-> r.blocked,
             res |-> IF r.res.ok THEN Err(FrameUnexpected) ELSE Err(r.res.err),
             queue |-> q,
             rest |-> r.rest]

\* T::try_from(method): the reply converts to the type the caller expects
TryFrom(msg) == Ok(msg)

\* IoLoopHandle::call_rpc, the match on recv()?
CallRpcResult(reply) ==
    IF ~reply.ok
    THEN Err(reply.err)
    ELSE IF reply.msg = "Method" THEN TryFrom(reply.msg) ELSE Err(FrameUnexpected)

\* IoLoopHandle::consume, the match on recv()?
ConsumeResult_AcceptsAny(reply) ==
    IF ~reply.ok THEN Err(reply.err) ELSE Ok(reply.msg)

ConsumeResult(reply) ==
    IF ~reply.ok
    THEN Err(reply.err)
    ELSE IF reply.msg = "ConsumeOk" THEN Ok(reply.msg) ELSE Err(FrameUnexpected)

\* channel slot of the loop
SlotOpen(waiter) == [state |-> "Open", rpc_waiter |-> waiter]
SlotClosed == [state |-> "Closed", rpc_waiter |-> ""]

(***************************************************************************)
(* State.                                                                  *)
(***************************************************************************)
VARIABLES
    kind,           \* ContentCollector.kind
    history,        \* the calls made to the collector since
                    \* ContentCollector::new, each with the kind before it
                    \* and its result
    pc,             \* where each application thread stands in its operation
    opNo,           \* operations each thread has issued
    opKind,         \* the operation each thread issued last
    result,         \* what that operation returned
    inDrop,         \* close_and_wait is running from Drop
    dropResult,     \* what Drop's close_and_wait returned (discarded)
    closed,         \* Channel.closed
    server_closed,  \* the shared ServerClosedError of each channel
    replyq,         \* reply channel of each handle (IoLoopHandle.rx)
    replyTx,        \* the loop still holds the sender of that reply channel
    queue,          \* the loop-bound message queue (IoLoopHandle.tx)
    loopAlive,      \* the I/O loop runs and holds the queue's receiver
    loopPc,         \* 0, or the channel whose set_server_closed is under way
    slot,           \* channel slots of the loop
    wire,           \* frames written to the socket, in order
    closeFrame,     \* the channel.close the broker sent on each channel
    opStartClosed,  \* is_closed when the current operation was issued
    opSent          \* messages the current operation handed to the queue

collectorVars == <<kind, history>>

threadVars == <<pc, result, inDrop, dropResult>>

chanVars ==
    <<pc, opNo, opKind, result, inDrop, dropResult, closed, server_closed,
      replyq, replyTx, queue, loopAlive, loopPc, slot, wire, closeFrame,
      opStartClosed, opSent>>

vars ==
    <<kind, history, pc, opNo, opKind, result, inDrop, dropResult, closed,
      server_closed, replyq, replyTx, queue, loopAlive, loopPc, slot, wire,
      closeFrame, opStartClosed, opSent>>

\* ContentCollector::new
CollectorInit ==
    /\ kind = KindNone
    /\ history = <<>>

\* Channel::new, ChannelHandle::new and IoLoopHandle::new for every channel,
\* with the loop running
ChannelInit ==
    /\ pc = [h \in Handles |-> "idle"]
    /\ opNo = [h \in Handles |-> 0]
    /\ opKind = [h \in Handles |-> "none"]
    /\ result = [h \in Handles |-> NoResult]
    /\ inDrop = [h \in Handles |-> FALSE]
    /\ dropResult = [h \in Handles |-> NoResult]
    /\ closed = [h \in Handles |-> FALSE]
    /\ server_closed = [h \in Handles |-> ServerClosedDefault]
    /\ replyq = [h \in Handles |-> <<>>]
    /\ replyTx = [h \in Handles |-> TRUE]
    /\ queue = <<>>
    /\ loopAlive = TRUE
    /\ loopPc = 0
    /\ slot = [h \in Handles |-> SlotOpen("")]
    /\ wire = <<>>
    /\ closeFrame = [h \in Handles |-> <<>>]
    /\ opStartClosed = [h \in Handles |-> FALSE]
    /\ opSent = [h \in Handles |-> 0]

Init == CollectorInit /\ ChannelInit

(***************************************************************************)
(* The collector's operations.                                             *)
(***************************************************************************)
Call(name, pre, deliver, header, body, res) ==
    [call |-> name, pre |-> pre, deliver |-> deliver, header |-> header,
     body |-> body, res |-> res]

New ==
    /\ history # <<>>
    /\ kind' = KindNone
    /\ history' = <<>>
    /\ UNCHANGED chanVars

DoCollectDeliver(deliver) ==
    /\ Len(history) < MaxCalls
    /\ LET r == CollectDeliver(kind, deliver)
       IN /\ kind' = r.kind
          /\ history' = Append(history,
                Call("deliver", kind, deliver, NoHeader, <<>>, r.res))
    /\ UNCHANGED chanVars

DoCollectHeader(header) ==
    /\ Len(history) < MaxCalls
    /\ LET r == CollectHeader(kind, header)
       IN /\ kind' = r.kind
          /\ history' = Append(history,
                Call("header", kind, NoDeliver, header, <<>>, r.res))
    /\ UNCHANGED chanVars

DoCollectBody(body) ==
    /\ Len(history) < MaxCalls
    /\ LET r == CollectBody(kind, body)
       IN /\ kind' = r.kind
          /\ history' = Append(history,
                Call("body", kind, NoDeliver, NoHeader, body, r.res))
    /\ UNCHANGED chanVars

CollectorNext ==
    \/ New
    \/ \E d \in Delivers : DoCollectDeliver(d)
    \/ \E h \in Headers : DoCollectHeader(h)
    \/ \E b \in Fragments : DoCollectBody(b)

SpecCollector == Init /\ [][CollectorNext]_vars

\* a collector met while it assembles a content: one of the states that
\* collect_deliver, collect_header(body_size = 2) and a one-byte
\* collect_body leave behind, or a fresh one; history starts there
MidContentKinds ==
    {KindNone} \cup
    { StateBody(start, [body_size |-> MaxBodySize, properties |-> "props-a"], <<b>>) :
          start \in Delivers, b \in Bytes }

CollectorMidInit ==
    /\ kind \in MidContentKinds
    /\ history = <<>>
    /\ ChannelInit

SpecCollectorMid == CollectorMidInit /\ [][CollectorNext]_vars

(***************************************************************************)
(* Application threads: the operations of Channel and IoLoopHandle.        *)
(***************************************************************************)
Operations == {"call", "consume", "publish", "close", "drop"}

FirstPc(operation) ==
    CASE operation = "call" -> "call_send"
      [] operation = "consume" -> "consume_send"
      [] operation = "publish" -> "pub_check"
      [] operation = "close" -> "caw_check"
      [] operation = "drop" -> "caw_check"

\* the thread goes on to the next statement of its operation, having handed
\* sent messages to the queue
Goto(h, next, sent) ==
    /\ pc' = [pc EXCEPT ![h] = next]
    /\ opSent' = [opSent EXCEPT ![h] = @ + sent]
    /\ UNCHANGED <<result, inDrop, dropResult, opStartClosed>>

\* the current function returns r. Channel::close(self) drops the channel
\* once close_and_wait has returned, which runs close_and_wait again from
\* Drop, whose result is discarded (let _ = ...)
Return_DropPropagates(h, r, sent) ==
    IF opKind[h] \in {"close", "drop"}
    THEN IF inDrop[h]
         THEN /\ pc' = [pc EXCEPT ![h] = "gone"]
              /\ dropResult' = [dropResult EXCEPT ![h] = r]
              /\ result' = [result EXCEPT ![h] = r]
              /\ opSent' = [opSent EXCEPT ![h] = @ + sent]
              /\ UNCHANGED <<inDrop, opStartClosed>>
         ELSE /\ pc' = [pc EXCEPT ![h] = "caw_check"]
              /\ result' = [result EXCEPT ![h] = r]
              /\ inDrop' = [inDrop EXCEPT ![h] = TRUE]
              /\ opStartClosed' =
                    [opStartClosed EXCEPT ![h] = server_closed[h].is_closed]
              /\ opSent' = [opSent EXCEPT ![h] = 0]
              /\ UNCHANGED dropResult
    ELSE /\ pc' = [pc EXCEPT ![h] = "idle"]
         /\ result' = [result EXCEPT ![h] = r]
         /\ opSent' = [opSent EXCEPT ![h] = @ + sent]
         /\ UNCHANGED <<inDrop, dropResult, opStartClosed>>

Return(h, r, sent) ==
    IF opKind[h] \in {"close", "drop"}
    THEN IF inDrop[h]
         THEN /\ pc' = [pc EXCEPT ![h] = "gone"]
              /\ dropResult' = [dropResult EXCEPT ![h] = r]
              /\ opSent' = [opSent EXCEPT ![h] = @ + sent]
              /\ UNCHANGED <<result, inDrop, opStartClosed>>
         ELSE /\ pc' = [pc EXCEPT ![h] = "caw_check"]
              /\ result' = [result EXCEPT ![h] = r]
              /\ inDrop' = [inDrop EXCEPT ![h] = TRUE]
              /\ opStartClosed' =
                    [opStartClosed EXCEPT ![h] = server_closed[h].is_closed]
              /\ opSent' = [opSent EXCEPT ![h] = 0]
              /\ UNCHANGED dropResult
    ELSE /\ pc' = [pc EXCEPT ![h] = "idle"]
         /\ result' = [result EXCEPT ![h] = r]
         /\ opSent' = [opSent EXCEPT ![h] = @ + sent]
         /\ UNCHANGED <<inDrop, dropResult, opStartClosed>>

RECURSIVE Total(_, _)
Total(f, S) ==
    IF S = {} THEN 0
    ELSE LET x == CHOOSE y \in S : TRUE IN f[x] + Total(f, S \ {x})

\* the thread issues its next operation
Begin(h, operation) ==
    /\ pc[h] = "idle"
    /\ Total(opNo, Handles) < MaxOps
    /\ opNo' = [opNo EXCEPT ![h] = @ + 1]
    /\ opKind' = [opKind EXCEPT ![h] = operation]
    /\ pc' = [pc EXCEPT ![h] = FirstPc(operation)]
    /\ result' = [result EXCEPT ![h] = NoResult]
    /\ inDrop' = [inDrop EXCEPT ![h] = (operation = "drop")]
    /\ opStartClosed' = [opStartClosed EXCEPT ![h] = server_closed[h].is_closed]
    /\ opSent' = [opSent EXCEPT ![h] = 0]
    /\ UNCHANGED <<dropResult, closed, server_closed, replyq, replyTx, queue,
                   loopAlive, loopPc, slot, wire, closeFrame>>
    /\ UNCHANGED collectorVars

\* self.send(message): on success the thread goes on at okPc, on failure
\* the error is returned (the ? operator)
DoSend(h, message, okPc) ==
    LET s == Send(queue, loopAlive, message, replyq[h], replyTx[h])
    IN /\ ~s.blocked
       /\ queue' = s.queue
       /\ replyq' = [replyq EXCEPT ![h] = s.rest]
       /\ IF s.res.status = "Ok"
          THEN Goto(h, okPc, 1)
          ELSE Return(h, s.res, 0)
       /\ UNCHANGED <<opNo, opKind, closed, server_closed, replyTx, loopAlive,
                      loopPc, slot, wire, closeFrame>>
       /\ UNCHANGED collectorVars

\* self.recv()? followed by the caller's match on the reply
DoRecv(h, r, res) ==
    /\ replyq' = [replyq EXCEPT ![h] = r.rest]
    /\ Return(h, res, 0)
    /\ UNCHANGED <<opNo, opKind, closed, server_closed, replyTx, queue,
                   loopAlive, loopPc, slot, wire, closeFrame>>
    /\ UNCHANGED collectorVars

\* IoLoopHandle::call / call_rpc
CallSend_NoWait(h) ==
    /\ pc[h] = "call_send"
    /\ DoSend(h, Message(h, opNo[h], "method", "queue.declare", TRUE), "idle")

CallSend(h) ==
    /\ pc[h] = "call_send"
    /\ DoSend(h, Message(h, opNo[h], "method", "queue.declare", TRUE), "call_recv")

CallRecv(h) ==
    /\ pc[h] = "call_recv"
    /\ LET r == Recv(replyq[h], replyTx[h])
       IN /\ ~r.blocked
          /\ DoRecv(h, r, CallRpcResult(r.res))

\* IoLoopHandle::consume
ConsumeSend(h) ==
    /\ pc[h] = "consume_send"
    /\ DoSend(h, Message(h, opNo[h], "method", "basic.consume", TRUE), "consume_recv")

ConsumeRecv(h) ==
    /\ pc[h] = "consume_recv"
    /\ LET r == Recv(replyq[h], replyTx[h])
       IN /\ ~r.blocked
          /\ DoRecv(h, r, ConsumeResult(r.res))

\* Channel::check_server_closed: the load of is_closed; Ok(()) lets the
\* caller go on at okPc, otherwise the error is read next
CheckServerClosed(h, okPc, errPc) ==
    /\ IF CheckIsClosed(server_closed[h])
       THEN Goto(h, errPc, 0)
       ELSE Goto(h, okPc, 0)
    /\ UNCHANGED <<opNo, opKind, closed, server_closed, replyq, replyTx, queue,
                   loopAlive, loopPc, slot, wire, closeFrame>>
    /\ UNCHANGED collectorVars

\* Channel::check_server_closed: Err(error.clone().unwrap())?
CheckServerClosedError_Take(h) ==
    /\ Return(h, CheckReadError(server_closed[h]), 0)
    /\ server_closed' = [server_closed EXCEPT ![h].error = <<>>]
    /\ UNCHANGED <<opNo, opKind, closed, replyq, replyTx, queue,
                   loopAlive, loopPc, slot, wire, closeFrame>>
    /\ UNCHANGED collectorVars

CheckServerClosedError(h) ==
    /\ Return(h, CheckReadError(server_closed[h]), 0)
    /\ UNCHANGED <<opNo, opKind, closed, server_closed, replyq, replyTx, queue,
                   loopAlive, loopPc, slot, wire, closeFrame>>
    /\ UNCHANGED collectorVars

\* Channel::basic_publish: self.check_server_closed()?
PublishCheck(h) ==
    /\ pc[h] = "pub_check"
    /\ CheckServerClosed(h, "pub_method", "pub_check_err")

PublishCheckError(h) ==
    /\ pc[h] = "pub_check_err"
    /\ CheckServerClosedError(h)

\* Channel::basic_publish: loop_handle.call_nowait(Publish)?, that is
\* IoLoopHandle::send_nowait
PublishMethod_IgnoresError(h) ==
    /\ pc[h] = "pub_method"
    /\ LET s == Send(queue, loopAlive,
                     Message(h, opNo[h], "method", "basic.publish", FALSE),
                     replyq[h], replyTx[h])
       IN /\ ~s.blocked
          /\ queue' = s.queue
          /\ replyq' = [replyq EXCEPT ![h] = s.rest]
          /\ Goto(h, "pub_header", IF s.res.status = "Ok" THEN 1 ELSE 0)
    /\ UNCHANGED <<opNo, opKind, closed, server_closed, replyTx, loopAlive,
                   loopPc, slot, wire, closeFrame>>
    /\ UNCHANGED collectorVars

PublishMethod_ContentFirst(h) ==
    /\ pc[h] = "pub_method"
    /\ DoSend(h, Message(h, opNo[h], "header", "", FALSE), "pub_header")

PublishMethod(h) ==
    /\ pc[h] = "pub_method"
    /\ DoSend(h, Message(h, opNo[h], "method", "basic.publish", FALSE), "pub_header")

\* Channel::basic_publish: loop_handle.send_content(..), first
\* IoLoopHandle::send_content_header
PublishHeader_AwaitsReply(h) ==
    /\ pc[h] = "pub_header"
    /\ DoSend(h, Message(h, opNo[h], "header", "", FALSE), "call_recv")

PublishHeader(h) ==
    /\ pc[h] = "pub_header"
    /\ DoSend(h, Message(h, opNo[h], "header", "", FALSE), "pub_body")

\* ... then IoLoopHandle::send_content_body, after which basic_publish
\* returns Ok(())
PublishBody(h) ==
    /\ pc[h] = "pub_body"
    /\ LET s == Send(queue, loopAlive, Message(h, opNo[h], "body", "", FALSE),
                     replyq[h], replyTx[h])
       IN /\ ~s.blocked
          /\ queue' = s.queue
          /\ replyq' = [replyq EXCEPT ![h] = s.rest]
          /\ Return(h, s.res, IF s.res.status = "Ok" THEN 1 ELSE 0)
    /\ UNCHANGED <<opNo, opKind, closed, server_closed, replyTx, loopAlive,
                   loopPc, slot, wire, closeFrame>>
    /\ UNCHANGED collectorVars

\* Channel::close_and_wait: self.check_server_closed()?
CloseCheck(h) ==
    /\ pc[h] = "caw_check"
    /\ CheckServerClosed(h, "caw_closed", "caw_check_err")

CloseCheckError(h) ==
    /\ pc[h] = "caw_check_err"
    /\ CheckServerClosedError(h)

\* Channel::close_and_wait: if self.closed { Ok(()) } else { self.closed = true; .. }
CloseTestClosed_NeverMarks(h) ==
    /\ pc[h] = "caw_closed"
    /\ IF closed[h]
       THEN Return(h, Ok(""), 0)
       ELSE Goto(h, "caw_send", 0)
    /\ UNCHANGED <<opNo, opKind, closed, server_closed, replyq, replyTx, queue,
                   loopAlive, loopPc, slot, wire, closeFrame>>
    /\ UNCHANGED collectorVars

CloseTestClosed(h) ==
    /\ pc[h] = "caw_closed"
    /\ IF closed[h]
       THEN /\ Return(h, Ok(""), 0)
            /\ UNCHANGED closed
       ELSE /\ Goto(h, "caw_send", 0)
            /\ closed' = [closed EXCEPT ![h] = TRUE]
    /\ UNCHANGED <<opNo, opKind, server_closed, replyq, replyTx, queue,
                   loopAlive, loopPc, slot, wire, closeFrame>>
    /\ UNCHANGED collectorVars

\* Channel::close_and_wait: loop_handle.call(channel_close())?
CloseSend(h) ==
    /\ pc[h] = "caw_send"
    /\ DoSend(h, Message(h, opNo[h], "method", "channel.close", TRUE), "caw_recv")

\* ... whose CloseOk is traced and dropped: close_and_wait returns Ok(())
CloseAndWaitResult(res) == IF res.status = "Ok" THEN Ok("") ELSE res

CloseRecv(h) ==
    /\ pc[h] = "caw_recv"
    /\ LET r == Recv(replyq[h], replyTx[h])
       IN /\ ~r.blocked
          /\ DoRecv(h, r, CloseAndWaitResult(CallRpcResult(r.res)))

(***************************************************************************)
(* The I/O loop and the broker behind it.                                  *)
(***************************************************************************)
\* the loop takes the next handle message: its bytes go to the write queue
\* and a synchronous request installs the slot's rpc_waiter; messages of a
\* closed channel are discarded
LoopHandleMessage ==
    /\ loopAlive
    /\ loopPc = 0
    /\ queue # <<>>
    /\ LET m == Head(queue)
       IN /\ queue' = Tail(queue)
          /\ IF slot[m.ch].state = "Open"
             THEN /\ wire' = Append(wire, WireFrame(m))
                  /\ slot' = IF m.sync
                             THEN [slot EXCEPT ![m.ch] = SlotOpen(m.method)]
                             ELSE slot
             ELSE UNCHANGED <<wire, slot>>
    /\ UNCHANGED <<pc, opNo, opKind, result, inDrop, dropResult, closed,
                   server_closed, replyq, replyTx, loopAlive, loopPc,
                   closeFrame, opStartClosed, opSent>>
    /\ UNCHANGED collectorVars

\* the broker's reply to the pending request arrives: the loop fulfils the
\* waiter and clears it; after close-ok the slot is destroyed
LoopReply(h, msg) ==
    /\ loopAlive
    /\ loopPc = 0
    /\ slot[h].state = "Open"
    /\ slot[h].rpc_waiter # ""
    /\ replyq' = [replyq EXCEPT ![h] = Append(@, ReplyOk(msg))]
    /\ IF slot[h].rpc_waiter = "channel.close"
       THEN /\ slot' = [slot EXCEPT ![h] = SlotClosed]
            /\ replyTx' = [replyTx EXCEPT ![h] = FALSE]
       ELSE /\ slot' = [slot EXCEPT ![h] = SlotOpen("")]
            /\ UNCHANGED replyTx
    /\ UNCHANGED <<pc, opNo, opKind, result, inDrop, dropResult, closed,
                   server_closed, queue, loopAlive, loopPc, wire, closeFrame,
                   opStartClosed, opSent>>
    /\ UNCHANGED collectorVars

\* channel.close arrives from the broker: the slot becomes Closed, a pending
\* waiter is failed with the typed error, the reply channel is dropped, and
\* set_server_closed starts by storing the error
LoopChannelClose(h, close) ==
    /\ loopAlive
    /\ loopPc = 0
    /\ slot[h].state = "Open"
    /\ slot' = [slot EXCEPT ![h] = SlotClosed]
    /\ replyq' = [replyq EXCEPT ![h] =
          IF slot[h].rpc_waiter # ""
          THEN Append(@, ReplyErr(ServerClosedChannel(h, close.reply_code,
                                                      close.reply_text)))
          ELSE @]
    /\ replyTx' = [replyTx EXCEPT ![h] = FALSE]
    /\ server_closed' = [server_closed EXCEPT ![h] =
          SetServerClosedStoreError(@, h, close)]
    /\ loopPc' = h
    /\ closeFrame' = [closeFrame EXCEPT ![h] = <<close>>]
    /\ UNCHANGED <<pc, opNo, opKind, result, inDrop, dropResult, closed, queue,
                   loopAlive, wire, opStartClosed, opSent>>
    /\ UNCHANGED collectorVars

\* set_server_closed ends by setting is_closed
LoopSetClosedFlag ==
    /\ loopAlive
    /\ loopPc # 0
    /\ server_closed' = [server_closed EXCEPT ![loopPc] = SetServerClosedStoreFlag(@)]
    /\ loopPc' = 0
    /\ UNCHANGED <<pc, opNo, opKind, result, inDrop, dropResult, closed, replyq,
                   replyTx, queue, loopAlive, slot, wire, closeFrame,
                   opStartClosed, opSent>>
    /\ UNCHANGED collectorVars

\* connection.close arrives from the broker: every open slot receives the
\* connection-level error, then the loop terminates, dropping the queue's
\* receiver and every reply sender
LoopConnectionClose(close) ==
    /\ loopAlive
    /\ loopPc = 0
    /\ replyq' = [h \in Handles |->
          IF slot[h].state = "Open"
          THEN Append(replyq[h], ReplyErr(ServerClosedConnection(close.reply_code,
                                                                  close.reply_text)))
          ELSE replyq[h]]
    /\ slot' = [h \in Handles |-> SlotClosed]
    /\ replyTx' = [h \in Handles |-> FALSE]
    /\ queue' = <<>>
    /\ loopAlive' = FALSE
    /\ UNCHANGED <<pc, opNo, opKind, result, inDrop, dropResult, closed,
                   server_closed, loopPc, wire, closeFrame, opStartClosed, opSent>>
    /\ UNCHANGED collectorVars

\* the loop thread ends without a word (an I/O error, a panic): the queue's
\* receiver and every reply sender are dropped
LoopDropped ==
    /\ loopAlive
    /\ loopPc = 0
    /\ slot' = [h \in Handles |-> SlotClosed]
    /\ replyTx' = [h \in Handles |-> FALSE]
    /\ queue' = <<>>
    /\ loopAlive' = FALSE
    /\ UNCHANGED <<pc, opNo, opKind, result, inDrop, dropResult, closed,
                   server_closed, replyq, loopPc, wire, closeFrame,
                   opStartClosed, opSent>>
    /\ UNCHANGED collectorVars

HandleStep(h) ==
    \/ \E k \in Operations : Begin(h, k)
    \/ CallSend(h)
    \/ CallRecv(h)
    \/ ConsumeSend(h)
    \/ ConsumeRecv(h)
    \/ PublishCheck(h)
    \/ PublishCheckError(h)
    \/ PublishMethod(h)
    \/ PublishHeader(h)
    \/ PublishBody(h)
    \/ CloseCheck(h)
    \/ CloseCheckError(h)
    \/ CloseTestClosed(h)
    \/ CloseSend(h)
    \/ CloseRecv(h)

LoopStep ==
    \/ LoopHandleMessage
    \/ \E h \in Handles, msg \in ChannelMessages : LoopReply(h, msg)
    \/ \E h \in Handles, close \in Closes : LoopChannelClose(h, close)
    \/ LoopSetClosedFlag
    \/ \E close \in Closes : LoopConnectionClose(close)
    \/ LoopDropped

Next ==
    \/ \E h \in Handles : HandleStep(h)
    \/ LoopStep

Spec == Init /\ [][Next]_vars

\* application threads are scheduled fairly and the loop thread keeps
\* running while it lives; the broker and failures of the loop are free
FairSpec ==
    /\ Spec
    /\ \A h \in Handles : WF_vars(HandleStep(h))
    /\ WF_vars(LoopHandleMessage)
    /\ WF_vars(LoopSetClosedFlag)

(***************************************************************************)
(* Content transcripts, read off the history of calls.                     *)
(***************************************************************************)
\* the body fragments of calls from..Len(h), concatenated in call order
RECURSIVE ConcatBodies(_, _)
ConcatBodies(h, from) ==
    IF from > Len(h) THEN <<>> ELSE h[from].body \o ConcatBodies(h, from + 1)

\* the deliveries emitted by the calls of h, in call order
RECURSIVE Emissions(_, _)
Emissions(h, from) ==
    IF from > Len(h) THEN <<>> ELSE h[from].res.emitted \o Emissions(h, from + 1)

\* the kind after call i of the history
PostKind(i) == IF i < Len(history) THEN history[i + 1].pre ELSE kind

\* one collect_deliver, one collect_header, then only collect_body
MethodHeaderBodies(h) ==
    /\ Len(h) >= 2
    /\ h[1].call = "deliver"
    /\ h[2].call = "header"
    /\ \A i \in 3..Len(h) : h[i].call = "body"

\* ... whose fragment lengths sum to exactly the header's body_size
IsTranscript(h) ==
    /\ MethodHeaderBodies(h)
    /\ Len(ConcatBodies(h, 3)) = h[2].header.body_size

\* the delivery a transcript describes
ExpectedDelivery(h) ==
    DeliveryNew(h[1].deliver, ConcatBodies(h, 3), h[2].header.properties)

\* the first call after which the accumulated length equals body_size
CompletingCall(h) ==
    CHOOSE k \in 2..Len(h) :
        /\ Len(ConcatBodies(SubSeq(h, 1, k), 3)) = h[2].header.body_size
        /\ \A j \in 2..(k - 1) :
              Len(ConcatBodies(SubSeq(h, 1, j), 3)) # h[2].header.body_size

(***************************************************************************)
(* C1 as stated: a fresh collector fed deliver, header(S) and n >= 0 body  *)
(* fragments whose lengths sum to S emits exactly one Delivery, emitted by *)
(* the last call of the transcript, whose body is the concatenation of the *)
(* fragments and whose properties are the header's; afterwards it is Idle. *)
(***************************************************************************)
C1_EmittedByLastCall ==
    IsTranscript(history) =>
        /\ Emissions(history, 1) = <<ExpectedDelivery(history)>>
        /\ history[Len(history)].res.emitted = <<ExpectedDelivery(history)>>
        /\ kind = KindNone

(***************************************************************************)
(* C1 amended: for the same transcripts the collector emits exactly one    *)
(* Delivery with the concatenated body and the header's properties and is  *)
(* Idle afterwards; the emission is made by the call that brings the       *)
(* accumulated length to S (collect_header when S = 0), which is the last  *)
(* call unless empty fragments follow it, and each of those returns        *)
(* FrameUnexpected.                                                        *)
(***************************************************************************)
C1_ExactlyOneDelivery ==
    IsTranscript(history) =>
        LET k == CompletingCall(history)
        IN /\ Emissions(history, 1) = <<ExpectedDelivery(history)>>
           /\ history[k].res = ResOk(<<ExpectedDelivery(history)>>)
           /\ \A i \in (k + 1)..Len(history) :
                 /\ history[i].body = <<>>
                 /\ history[i].res = ResFrameUnexpected
           /\ (history[Len(history)].call = "body"
                 /\ history[Len(history)].body # <<>>) => k = Len(history)
           /\ kind = KindNone

\* a transcript of two non-empty fragments of different bytes, delivered
C1_Witness ==
    /\ IsTranscript(history)
    /\ Len(history) = 4
    /\ history[3].body # <<>>
    /\ history[4].body # <<>>
    /\ history[3].body # history[4].body
    /\ history[4].res.emitted # <<>>
    /\ kind = KindNone

(***************************************************************************)
(* C2: every frame ordering other than Method -> Header -> Body* is        *)
(* rejected with FrameUnexpected and emits nothing: header or body while   *)
(* Idle, body while awaiting the header, header while awaiting body, and   *)
(* deliver while a content is being assembled.                             *)
(***************************************************************************)
OutOfOrder(c) ==
    \/ c.call \in {"header", "body"} /\ c.pre.tag = "None"
    \/ c.call = "body" /\ c.pre.tag = "Start"
    \/ c.call = "header" /\ c.pre.tag = "Body"
    \/ c.call = "deliver" /\ c.pre.tag \in {"Start", "Body"}

C2_OutOfOrderRejected ==
    \A i \in 1..Len(history) :
        OutOfOrder(history[i]) => history[i].res = ResFrameUnexpected

\* one history holds a deliver refused mid-body and a body refused while Idle
C2_Witness ==
    /\ \E i \in 1..Len(history) :
          history[i].call = "deliver" /\ history[i].pre.tag = "Body"
    /\ \E i \in 1..Len(history) :
          history[i].call = "body" /\ history[i].pre.tag = "None"
    /\ \A i \in 1..Len(history) :
          OutOfOrder(history[i]) => history[i].res.status = "FrameUnexpected"

(***************************************************************************)
(* C3: a proper prefix of a content transcript (method, header, non-empty  *)
(* fragments totalling less than body_size) yields no emission, every call *)
(* returns Ok, and the collector is left not Idle.                         *)
(***************************************************************************)
IsProperPrefix(h) ==
    /\ Len(h) >= 1
    /\ h[1].call = "deliver"
    /\ Len(h) >= 2 =>
          /\ h[2].call = "header"
          /\ \A i \in 3..Len(h) : h[i].call = "body" /\ h[i].body # <<>>
          /\ Len(ConcatBodies(h, 3)) < h[2].header.body_size

C3_PrefixEmitsNothing ==
    IsProperPrefix(history) =>
        /\ \A i \in 1..Len(history) : history[i].res = ResOk(<<>>)
        /\ kind # KindNone
        /\ kind.tag \in {"Start", "Body"}

\* method, header and one fragment that does not complete the body
C3_Witness ==
    /\ IsProperPrefix(history)
    /\ Len(history) = 3
    /\ kind.tag = "Body"
    /\ kind.buf = history[3].body

(***************************************************************************)
(* C4: the bytes accumulated in AwaitBody never exceed body_size; a        *)
(* collect_body bringing the total above body_size returns FrameUnexpected *)
(* and emits nothing, a total equal to body_size emits and returns to      *)
(* Idle, a smaller total stays in AwaitBody.                               *)
(***************************************************************************)
C4_BodyNeverExceedsSize ==
    /\ kind.tag = "Body" => Len(kind.buf) <= kind.header.body_size
    /\ \A i \in 1..Len(history) :
          LET c == history[i]
              total == Len(c.pre.buf) + Len(c.body)
              size == c.pre.header.body_size
          IN (c.call = "body" /\ c.pre.tag = "Body") =>
                /\ Len(c.pre.buf) <= size
                /\ total > size => c.res = ResFrameUnexpected
                /\ total = size =>
                      /\ c.res = ResOk(<<DeliveryNew(c.pre.start,
                                            c.pre.buf \o c.body,
                                            c.pre.header.properties)>>)
                      /\ PostKind(i) = KindNone
                /\ total < size =>
                      /\ c.res = ResOk(<<>>)
                      /\ PostKind(i) =
                            StateBody(c.pre.start, c.pre.header, c.pre.buf \o c.body)

\* a fragment that overflows the declared size after an earlier fragment
C4_Witness ==
    /\ Len(history) = 4
    /\ history[3].call = "body" /\ history[3].res = ResOk(<<>>)
    /\ history[3].body # <<>>
    /\ history[4].call = "body" /\ history[4].pre.tag = "Body"
    /\ Len(history[4].pre.buf) + Len(history[4].body)
          > history[4].pre.header.body_size
    /\ history[4].res = ResFrameUnexpected

(***************************************************************************)
(* C5: awaiting a header, a header with body_size = 0 makes collect_header *)
(* emit the content with an empty body at once and return to Idle, so a    *)
(* collect_body arriving next is FrameUnexpected; a header with            *)
(* body_size > 0 emits nothing and moves to AwaitBody with an empty        *)
(* accumulator.                                                            *)
(***************************************************************************)
C5_ZeroSizeHeaderEmits ==
    \A i \in 1..Len(history) :
        LET c == history[i]
        IN (c.call = "header" /\ c.pre.tag = "Start") =>
              IF c.header.body_size = 0
              THEN /\ c.res = ResOk(<<DeliveryNew(c.pre.start, <<>>,
                                                  c.header.properties)>>)
                   /\ PostKind(i) = KindNone
                   /\ (i < Len(history) /\ history[i + 1].call = "body") =>
                         history[i + 1].res = ResFrameUnexpected
              ELSE /\ c.res = ResOk(<<>>)
                   /\ PostKind(i) = StateBody(c.pre.start, c.header, <<>>)

\* deliver, header(0) emitting, then a body frame that is rejected
C5_Witness ==
    /\ Len(history) = 3
    /\ history[2].call = "header" /\ history[2].pre.tag = "Start"
    /\ history[2].header.body_size = 0
    /\ history[2].res.emitted # <<>>
    /\ history[3].call = "body"
    /\ history[3].res = ResFrameUnexpected


(***************************************************************************)
(* Channel handles: what the claims speak about.                           *)
(***************************************************************************)
SendPcs == {"call_send", "consume_send", "pub_method", "pub_header", "pub_body",
            "caw_send"}

RecvPcs == {"call_recv", "consume_recv", "caw_recv"}

\* the error set_server_closed recorded for channel h
RecordedCloseError(h) ==
    ServerClosedChannel(h, closeFrame[h][1].reply_code, closeFrame[h][1].reply_text)

\* thread h returns from a function of its operation in this step
Returns(h) ==
    /\ pc'[h] # pc[h]
    /\ pc'[h] \in {"idle", "gone", "caw_check"}

\* ... and what it returns (Drop's close_and_wait returns into dropResult)
Returned(h) == IF inDrop[h] THEN dropResult'[h] ELSE result'[h]

\* the frames of channel h on the wire, in wire order
OnWire(h) == SelectSeq(wire, LAMBDA f : f.ch = h)

FrameRank(f) ==
    CASE f.frame = "method" -> 1
      [] f.frame = "header" -> 2
      [] f.frame = "body" -> 3

(***************************************************************************)
(* C6: once set_server_closed has recorded the broker's Close, every       *)
(* operation then issued on that Channel (basic_publish, close, the close  *)
(* attempted by Drop) returns ServerClosedChannel with the original        *)
(* reply_code and reply_text and hands no message to the I/O loop.         *)
(***************************************************************************)
C6_ServerClosedFailsFast ==
    /\ [](\A h \in Handles :
            (opStartClosed[h] /\ opKind[h] \in {"publish", "close", "drop"}) =>
                /\ opSent[h] = 0
                /\ pc[h] \notin SendPcs \cup RecvPcs)
    /\ [][\A h \in Handles :
            (/\ opStartClosed[h]
             /\ opKind[h] \in {"publish", "close", "drop"}
             /\ pc[h] \notin {"idle", "gone"}
             /\ pc'[h] # pc[h]) =>
                /\ queue' = queue
                /\ replyq' = replyq
                /\ Returns(h) => Returned(h) = Err(RecordedCloseError(h))]_vars

\* a basic_publish issued after the broker closed the channel has returned
\* the broker's error, and so has a Drop on the other channel
C6_Witness ==
    \E h \in Handles :
        /\ opStartClosed[h]
        /\ opKind[h] = "publish"
        /\ pc[h] = "idle"
        /\ result[h] = Err(ServerClosedChannel(h, 406, "PRECONDITION_FAILED"))
        /\ opSent[h] = 0
        /\ \E g \in Handles \ {h} :
              /\ opStartClosed[g]
              /\ pc[g] = "gone"
              /\ dropResult[g] = Err(ServerClosedChannel(g, 406, "PRECONDITION_FAILED"))

(***************************************************************************)
(* C7: a synchronous call (or consume) blocked waiting for its reply does  *)
(* not hang when the broker sends channel.close or connection.close before *)
(* the reply: the loop fulfils the pending waiter with the typed close     *)
(* error, and the call returns that error.                                 *)
(***************************************************************************)
\* the typed close error is what thread h will receive next
CloseErrorQueued(h) ==
    /\ pc[h] \in RecvPcs
    /\ replyq[h] # <<>>
    /\ ~Head(replyq[h]).ok
    /\ Head(replyq[h]).err.kind \in {"ServerClosedChannel", "ServerClosedConnection"}

\* the broker's close arrives while a waiter is pending on channel h
CloseArrivesFirst(h) ==
    /\ slot[h].rpc_waiter # ""
    /\ slot'[h].state = "Closed"
    /\ \/ closeFrame'[h] # closeFrame[h]
       \/ loopAlive /\ ~loopAlive' /\ replyq' # replyq

C7_PendingCallGetsCloseError ==
    /\ [][\A h \in Handles :
            /\ CloseArrivesFirst(h) =>
                  /\ pc[h] \in RecvPcs
                  /\ replyq[h] = <<>>
                  /\ CloseErrorQueued(h)'
                  /\ closeFrame'[h] # closeFrame[h] =>
                        Head(replyq'[h]).err = RecordedCloseError(h)'
            /\ (CloseErrorQueued(h) /\ pc'[h] # pc[h]) =>
                  /\ Returns(h)
                  /\ Returned(h) = Err(Head(replyq[h]).err)]_vars
    /\ \A h \in Handles : CloseErrorQueued(h) ~> (pc[h] \notin RecvPcs)

\* a call that was sent and then waited has returned the error of the
\* broker's channel.close
C7_Witness ==
    \E h \in Handles :
        /\ opKind[h] = "call"
        /\ pc[h] = "idle"
        /\ opSent[h] = 1
        /\ closeFrame[h] # <<>>
        /\ result[h] = Err(ServerClosedChannel(h, 406, "PRECONDITION_FAILED"))

(***************************************************************************)
(* C8: a handle operation never blocks for ever once the loop side is      *)
(* gone. If sending to the loop fails, or the loop has dropped its end of  *)
(* the reply channel while the handle waits for a reply, the operation     *)
(* ends with an error, the terminal error queued on the reply channel if   *)
(* there is one and EventLoopDropped otherwise, and never with Ok.         *)
(***************************************************************************)
\* what is left for thread h to receive once the sender is gone
TerminalError(h) ==
    IF replyq[h] # <<>> THEN Head(replyq[h]).err ELSE EventLoopDropped

\* the handle waits for a reply that was not queued before the loop dropped
\* its end of the reply channel
Orphaned(h) ==
    /\ pc[h] \in RecvPcs
    /\ ~replyTx[h]
    /\ replyq[h] # <<>> => ~Head(replyq[h]).ok

\* sending fails
SendFails(h) ==
    /\ pc[h] \in SendPcs
    /\ ~loopAlive

C8_NoHangOnceLoopGone ==
    /\ [][\A h \in Handles :
            ((SendFails(h) \/ Orphaned(h)) /\ pc'[h] # pc[h]) =>
                /\ Returns(h)
                /\ Returned(h) = Err(TerminalError(h))
                /\ Returned(h).err # NoError]_vars
    /\ \A h \in Handles :
          (SendFails(h) \/ Orphaned(h)) ~> (pc[h] \notin SendPcs \cup RecvPcs)

\* one call found the loop gone when sending and returned the queued
\* connection error; another had been sent and returned EventLoopDropped
C8_Witness ==
    /\ ~loopAlive
    /\ \E h \in Handles :
          /\ opKind[h] = "call" /\ pc[h] = "idle" /\ opSent[h] = 0
          /\ result[h] = Err(ServerClosedConnection(406, "PRECONDITION_FAILED"))
          /\ \E g \in Handles \ {h} :
                /\ opKind[g] = "consume" /\ pc[g] = "idle" /\ opSent[g] = 1
                /\ result[g] = Err(EventLoopDropped)

(***************************************************************************)
(* C9: the operations of one channel handle reach the wire in call order:  *)
(* N calls give N method frames in the order of the calls, and a publish   *)
(* gives its method, then its content header, then its body, in that order *)
(* relative to every earlier and later operation of the handle.            *)
(***************************************************************************)
C9_WireKeepsCallOrder ==
    \A h \in Handles :
        LET w == OnWire(h)
        IN /\ \A i \in 1..(Len(w) - 1) :
                 \/ w[i].op < w[i + 1].op
                 \/ /\ w[i].op = w[i + 1].op
                    /\ FrameRank(w[i]) + 1 = FrameRank(w[i + 1])
           /\ \A i \in 1..Len(w) :
                 /\ w[i].op \in 1..opNo[h]
                 /\ w[i].frame # "method" =>
                       /\ i > 1
                       /\ w[i - 1].op = w[i].op
                 /\ w[i].frame = "method" =>
                       \A j \in 1..Len(w) : (w[j] = w[i]) => j = i
           /\ (pc[h] = "idle" /\ opKind[h] \in {"call", "consume"}
                 /\ result[h].status = "Ok") =>
                 \E i \in 1..Len(w) : w[i].op = opNo[h] /\ w[i].frame = "method"

\* a publish followed by a call of the same handle, all four frames written
C9_Witness ==
    \E h \in Handles :
        LET w == OnWire(h)
        IN /\ Len(w) = 4
           /\ w[1].method = "basic.publish"
           /\ w[2].frame = "header"
           /\ w[3].frame = "body"
           /\ w[4].method = "queue.declare"
           /\ w[4].op = 2

(***************************************************************************)
(* C10: when several handles publish concurrently, the frames of one       *)
(* publish (method, header, body) are contiguous on the wire: no frame of  *)
(* another handle appears between them.                                    *)
(***************************************************************************)
C10_PublishContiguous ==
    \A i \in 1..Len(wire) : \A j \in (i + 1)..Len(wire) :
        (wire[i].ch = wire[j].ch /\ wire[i].op = wire[j].op) =>
            \A k \in i..j : wire[k].ch = wire[i].ch

(***************************************************************************)
(* C11: closing is idempotent after success. Over the lifetime of one      *)
(* Channel (close() and the Drop it triggers, or Drop alone) channel.close *)
(* is handed to the loop at most once, and the close_and_wait that Drop    *)
(* runs after a successful close returns Ok(()) without sending anything   *)
(* and without waiting for a reply.                                        *)
(***************************************************************************)
\* the channel.close messages of channel h in s (the queue or the wire)
CloseMessages(s, h) ==
    {i \in 1..Len(s) : s[i].ch = h /\ s[i].method = "channel.close"}

\* Drop runs close_and_wait after an explicit close()
DropAfterClose(h) == opKind[h] = "close" /\ inDrop[h]

C11_CloseIdempotent ==
    \A h \in Handles :
        /\ opKind[h] \in {"close", "drop"} => opSent[h] <= 1
        /\ Cardinality(CloseMessages(queue, h))
              + Cardinality(CloseMessages(wire, h)) <= 1
        /\ DropAfterClose(h) =>
              /\ opSent[h] = 0
              /\ pc[h] \notin SendPcs \cup RecvPcs
        /\ (DropAfterClose(h) /\ result[h].status = "Ok" /\ pc[h] = "gone") =>
              dropResult[h] = Ok("")

\* close() sent channel.close, got close-ok and returned Ok(()); the Drop
\* that followed returned Ok(()) having sent nothing
C11_Witness ==
    \E h \in Handles :
        /\ DropAfterClose(h)
        /\ pc[h] = "gone"
        /\ result[h] = Ok("")
        /\ dropResult[h] = Ok("")
        /\ opSent[h] = 0
        /\ Cardinality(CloseMessages(wire, h)) = 1

(***************************************************************************)
(* C12: at most one RPC per channel is in flight. A call (or consume)      *)
(* sends its request and then blocks until it has taken exactly one        *)
(* message from the reply channel, so no second synchronous request is     *)
(* sent while an earlier one awaits its reply, and the loop's rpc_waiter   *)
(* is installed exactly while a synchronous reply is awaited.              *)
(***************************************************************************)
\* the synchronous requests of channel h the loop has not taken yet
SyncInQueue(h) == {i \in 1..Len(queue) : queue[i].ch = h /\ queue[i].sync}

\* thread h is blocked in recv() after its request was enqueued
AwaitsReply(h) == pc[h] \in RecvPcs

C12_OneRpcInFlight ==
    /\ [](\A h \in Handles :
            /\ slot[h].rpc_waiter # "" =>
                  /\ AwaitsReply(h)
                  /\ slot[h].state = "Open"
                  /\ replyq[h] = <<>>
                  /\ SyncInQueue(h) = {}
            /\ slot[h].state = "Open" =>
                  /\ Cardinality(SyncInQueue(h)) <= 1
                  /\ SyncInQueue(h) # {} => (AwaitsReply(h) /\ replyq[h] = <<>>)
            /\ (/\ AwaitsReply(h)
                /\ slot[h].state = "Open"
                /\ SyncInQueue(h) = {}
                /\ replyq[h] = <<>>) => slot[h].rpc_waiter # "")
    /\ [][\A h \in Handles :
            /\ (pc[h] \notin RecvPcs /\ pc'[h] \in RecvPcs) =>
                  /\ Len(queue') = Len(queue) + 1
                  /\ queue'[Len(queue')].ch = h
                  /\ queue'[Len(queue')].sync
            /\ (pc[h] \in RecvPcs /\ pc'[h] # pc[h]) =>
                  /\ pc'[h] \notin SendPcs \cup RecvPcs
                  /\ IF replyq[h] # <<>>
                     THEN replyq'[h] = Tail(replyq[h])
                     ELSE replyq'[h] = replyq[h] /\ ~replyTx[h]]_vars

\* the second synchronous request of one handle awaits its reply, the first
\* having been answered
C12_Witness ==
    \E h \in Handles :
        /\ opNo[h] = 2
        /\ pc[h] = "consume_recv"
        /\ slot[h].rpc_waiter = "basic.consume"
        /\ Len(OnWire(h)) = 2
        /\ OnWire(h)[1].method = "queue.declare"

(***************************************************************************)
(* C13: an asynchronous send (send_nowait, send_content_header,            *)
(* send_content_body) returns as soon as its message is enqueued: when the *)
(* enqueue succeeds no waiter is installed and the handle reads nothing    *)
(* from its reply channel, so the reply channel is left as it was and a    *)
(* later synchronous call still receives its own reply.                    *)
(***************************************************************************)
AsyncPcs == {"pub_method", "pub_header", "pub_body"}

\* thread h enqueues a message in this step
Enqueues(h) ==
    /\ Len(queue') = Len(queue) + 1
    /\ queue'[Len(queue')].ch = h

\* the loop takes an asynchronous message in this step
LoopTakesAsync ==
    /\ loopAlive'
    /\ queue # <<>>
    /\ queue' = Tail(queue)
    /\ ~Head(queue).sync

C13_AsyncSendReadsNothing ==
    /\ [](\A h \in Handles :
            /\ opKind[h] = "publish" =>
                  /\ pc[h] \notin RecvPcs
                  /\ slot[h].rpc_waiter = ""
            /\ \A i \in 1..Len(replyq[h]) :
                  replyq[h][i].ok => (i = 1 /\ pc[h] \in RecvPcs))
    /\ [][/\ \A h \in Handles :
               (pc[h] \in AsyncPcs /\ Enqueues(h)) =>
                   /\ ~queue'[Len(queue')].sync
                   /\ replyq' = replyq
                   /\ slot' = slot
                   /\ pc'[h] \in (AsyncPcs \ {pc[h]}) \cup {"idle"}
                   /\ pc'[h] = "idle" => result'[h] = Ok("")
          /\ LoopTakesAsync => (slot' = slot /\ replyq' = replyq)]_vars

\* a publish enqueued its three messages and returned Ok(()); the call that
\* followed on the same handle received its reply from an otherwise empty
\* reply channel
C13_Witness ==
    \E h \in Handles :
        /\ opNo[h] = 2
        /\ opKind[h] = "call"
        /\ pc[h] = "idle"
        /\ result[h] = Ok("Method")
        /\ replyq[h] = <<>>
        /\ Len(OnWire(h)) = 4
        /\ OnWire(h)[1].method = "basic.publish"
        /\ OnWire(h)[3].frame = "body"

(***************************************************************************)
(* C14: the shared server-closed state of a channel is published once and  *)
(* never revised: once is_closed is true it never becomes false again, and *)
(* the stored error (channel id, reply code, reply text) never changes     *)
(* afterwards, whatever the loop and the handles do next.                  *)
(***************************************************************************)
C14_ServerClosedNeverRevised ==
    /\ [](\A h \in Handles :
            server_closed[h].is_closed =>
                server_closed[h].error = <<RecordedCloseError(h)>>)
    /\ [][\A h \in Handles :
            /\ server_closed[h].is_closed =>
                  server_closed'[h] = server_closed[h]
            /\ server_closed[h].error # <<>> =>
                  server_closed'[h].error = server_closed[h].error]_vars

\* both channels were closed by the broker; one handle has since read the
\* error in a publish, the other in a Drop, and the loop has gone away
C14_Witness ==
    /\ ~loopAlive
    /\ \A h \in Handles : server_closed[h].is_closed
    /\ \E h \in Handles :
          /\ opKind[h] = "publish"
          /\ pc[h] = "idle"
          /\ result[h] = Err(server_closed[h].error[1])
          /\ \E g \in Handles \ {h} :
                /\ pc[g] = "gone"
                /\ dropResult[g] = Err(server_closed[g].error[1])

(***************************************************************************)
(* C15 as stated: dropping a Channel that neither the application nor the  *)
(* server has closed sends exactly one channel.close and awaits close-ok;  *)
(* whatever error the attempt produces is discarded and does not leave the *)
(* destructor.                                                             *)
(***************************************************************************)
\* Drop found the channel closed by neither side: its close_and_wait passed
\* check_server_closed and set self.closed
DropOfOpenChannel(h) == opKind[h] = "drop" /\ closed[h]

\* ... and the attempt did not meet a close from the broker either
NoServerClose(h) ==
    dropResult[h].err.kind \notin {"ServerClosedChannel", "ServerClosedConnection"}

C15_DropSendsExactlyOne ==
    \A h \in Handles :
        (DropOfOpenChannel(h) /\ pc[h] = "gone" /\ NoServerClose(h)) =>
            /\ opSent[h] = 1
            /\ result[h] = NoResult
            /\ dropResult[h].status # "Panic"

(***************************************************************************)
(* C15 amended: such a Drop makes one attempt to close. While the loop     *)
(* still holds the queue's receiver exactly one channel.close is enqueued  *)
(* and the reply is awaited; once the loop is gone the send fails, nothing *)
(* is enqueued and the attempt ends with the terminal error. In every case *)
(* at most one channel.close is sent, and the outcome of the attempt is    *)
(* discarded: nothing leaves the destructor.                               *)
(***************************************************************************)
C15_DropBestEffortClose ==
    /\ [](\A h \in Handles :
            opKind[h] = "drop" =>
                /\ result[h] = NoResult
                /\ dropResult[h].status # "Panic"
                /\ opSent[h] <= 1
                /\ pc[h] = "caw_recv" => opSent[h] = 1
                /\ (closed[h] /\ pc[h] = "gone") =>
                      \/ opSent[h] = 1
                      \/ /\ opSent[h] = 0
                         /\ ~loopAlive
                         /\ dropResult[h].status = "Err")
    /\ [][\A h \in Handles :
            (opKind[h] = "drop" /\ pc[h] = "caw_send" /\ pc'[h] # pc[h]) =>
                IF loopAlive
                THEN /\ pc'[h] = "caw_recv"
                     /\ Enqueues(h)
                     /\ queue'[Len(queue')].method = "channel.close"
                ELSE /\ pc'[h] = "gone"
                     /\ queue' = queue
                     /\ dropResult'[h] = Err(TerminalError(h))]_vars

\* one Drop sent channel.close and discarded the FrameUnexpected its reply
\* gave; another found the loop gone, sent nothing and discarded
\* EventLoopDropped
C15_Witness ==
    \E h \in Handles :
        /\ DropOfOpenChannel(h)
        /\ pc[h] = "gone"
        /\ opSent[h] = 1
        /\ dropResult[h] = Err(FrameUnexpected)
        /\ result[h] = NoResult
        /\ \E g \in Handles \ {h} :
              /\ DropOfOpenChannel(g)
              /\ pc[g] = "gone"
              /\ opSent[g] = 0
              /\ dropResult[g] = Err(EventLoopDropped)
              /\ result[g] = NoResult

(***************************************************************************)
(* The triggers of the collector.                                          *)
(***************************************************************************)
\* the content-bearing methods ContentCollector has an operation for:
\* collect_deliver(Deliver) is the only one
CollectorTriggers == {"basic.deliver"}

\* enum CollectorResult { Delivery((String, Delivery)) }, one variant for
\* the one variant of enum Kind
CollectorResults == {"Delivery"}

\* the content-bearing methods of the protocol and the result each is to be
\* emitted as
ContentBearingMethods == {"basic.deliver", "basic.get-ok", "basic.return"}

ResultTag(method) ==
    CASE method = "basic.deliver" -> "Delivery"
      [] method = "basic.get-ok" -> "Get"
      [] method = "basic.return" -> "Return"

(***************************************************************************)
(* C16: the collector accepts each of Deliver, GetOk and Return as a       *)
(* trigger, moving from Idle to AwaitHeader, and emits the completed       *)
(* content tagged with its trigger; basic.get-ok followed by a header with *)
(* body_size = 0 emits a Get result with an empty body at once.            *)
(***************************************************************************)
C16_EveryTriggerAccepted ==
    kind = KindNone =>
        \A method \in ContentBearingMethods :
            /\ method \in CollectorTriggers
            /\ ResultTag(method) \in CollectorResults
            /\ \A start \in Delivers :
                  CollectDeliver(kind, start) =
                      [kind |-> StateStart(start), res |-> ResOk(<<>>)]

(***************************************************************************)
(* C17: under every interleaving of the loop thread in set_server_closed   *)
(* with application threads in check_server_closed, a reader that sees     *)
(* is_closed = true finds the error filled in, because the error is stored *)
(* before the flag is set. The unwrap never fails, and                     *)
(* check_server_closed returns Ok(()) or the complete ServerClosedChannel  *)
(* error, never a partial state.                                           *)
(***************************************************************************)
CheckPcs == {"pub_check", "caw_check"}

CheckErrPcs == {"pub_check_err", "caw_check_err"}

C17_FlagImpliesError ==
    /\ [](\A h \in Handles :
            /\ server_closed[h].is_closed => server_closed[h].error # <<>>
            /\ pc[h] \in CheckErrPcs => server_closed[h].error # <<>>
            /\ result[h].status # "Panic"
            /\ dropResult[h].status # "Panic")
    /\ [][\A h \in Handles :
            /\ (pc[h] \in CheckPcs /\ pc'[h] # pc[h]) =>
                  IF server_closed[h].is_closed
                  THEN pc'[h] \in CheckErrPcs
                  ELSE pc'[h] \in {"pub_method", "caw_closed"}
            /\ (pc[h] \in CheckErrPcs /\ pc'[h] # pc[h]) =>
                  /\ Returns(h)
                  /\ Returned(h) =
                        Err(ServerClosedChannel(h, closeFrame[h][1].reply_code,
                                                closeFrame[h][1].reply_text))]_vars

\* a publish passed check_server_closed between the store of the error and
\* the store of the flag, while on the other channel a publish read the
\* complete error after the flag was set
C17_Witness ==
    \E h \in Handles :
        /\ loopPc = h
        /\ server_closed[h].error # <<>>
        /\ ~server_closed[h].is_closed
        /\ pc[h] = "pub_method"
        /\ \E g \in Handles \ {h} :
              /\ server_closed[g].is_closed
              /\ opKind[g] = "publish"
              /\ pc[g] = "idle"
              /\ result[g] = Err(ServerClosedChannel(g, 406, "PRECONDITION_FAILED"))

(***************************************************************************)
(* C18: whenever collect_deliver, collect_header or collect_body returns   *)
(* FrameUnexpected the partially assembled content is discarded and the    *)
(* collector is left Idle (kind = None), so a collect_deliver that follows *)
(* is accepted and starts a new content, and no byte of the discarded      *)
(* content appears in a delivery emitted later.                            *)
(***************************************************************************)
\* the calls of the history made while the collector was Idle, up to call i
IdleCalls(i) == {j \in 1..i : history[j].pre.tag = "None"}

\* the call that started the content call i belongs to
ContentStart(i) == CHOOSE j \in IdleCalls(i) : \A k \in IdleCalls(i) : k <= j

C18_ErrorLeavesIdle ==
    \A i \in 1..Len(history) :
        /\ history[i].res = ResFrameUnexpected =>
              /\ PostKind(i) = KindNone
              /\ (i < Len(history) /\ history[i + 1].call = "deliver") =>
                    /\ history[i + 1].res = ResOk(<<>>)
                    /\ PostKind(i + 1) = StateStart(history[i + 1].deliver)
        /\ history[i].res.emitted # <<>> =>
              /\ \A f \in 1..(i - 1) :
                    history[f].res = ResFrameUnexpected =>
                        /\ IdleCalls(i) # {}
                        /\ ContentStart(i) > f
              /\ IdleCalls(i) # {} =>
                    LET s == ContentStart(i)
                    IN /\ history[s].call = "deliver"
                       /\ \A j \in s..i : history[j].res.status = "Ok"
                       /\ history[i].res.emitted[1].consumer_tag =
                             history[s].deliver.consumer_tag
                       /\ history[i].res.emitted[1].body =
                             ConcatBodies(SubSeq(history, 1, i), s + 1)

\* a content with one byte assembled was discarded by an unexpected header;
\* the content that followed was delivered with a different byte only
C18_Witness ==
    /\ Len(history) = 4
    /\ history[1].pre.tag = "Body"
    /\ history[1].pre.buf # <<>>
    /\ history[1].call = "header"
    /\ history[1].res = ResFrameUnexpected
    /\ history[2].call = "deliver"
    /\ history[2].res = ResOk(<<>>)
    /\ history[4].res.emitted # <<>>
    /\ history[4].res.emitted[1].body # <<>>
    /\ \A n \in 1..Len(history[4].res.emitted[1].body) :
          history[4].res.emitted[1].body[n] # history[1].pre.buf[1]

(***************************************************************************)
(* C19: the handle checks the kind of reply it receives. consume returns   *)
(* (consumer_tag, delivery_stream) only for a ConsumeOk reply and          *)
(* FrameUnexpected for a plain Method; call returns the converted method   *)
(* only for a Method reply and FrameUnexpected for ConsumeOk; either way   *)
(* exactly one message is taken from the reply channel per successful      *)
(* send.                                                                   *)
(***************************************************************************)
\* thread h takes an Ok reply off its reply channel in this step
TakesReply(h) ==
    /\ pc'[h] # pc[h]
    /\ replyq[h] # <<>>
    /\ Head(replyq[h]).ok

C19_ReplyKindChecked ==
    /\ [](\A h \in Handles :
            (pc[h] = "idle" /\ result[h].status = "Ok") =>
                /\ opKind[h] = "call" => result[h].val = "Method"
                /\ opKind[h] = "consume" => result[h].val = "ConsumeOk")
    /\ [][\A h \in Handles :
            /\ (pc[h] = "call_recv" /\ TakesReply(h)) =>
                  /\ replyq'[h] = Tail(replyq[h])
                  /\ pc'[h] = "idle"
                  /\ result'[h] =
                        IF Head(replyq[h]).msg = "Method"
                        THEN TryFrom("Method")
                        ELSE Err(FrameUnexpected)
            /\ (pc[h] = "consume_recv" /\ TakesReply(h)) =>
                  /\ replyq'[h] = Tail(replyq[h])
                  /\ pc'[h] = "idle"
                  /\ result'[h] =
                        IF Head(replyq[h]).msg = "ConsumeOk"
                        THEN Ok("ConsumeOk")
                        ELSE Err(FrameUnexpected)
            /\ (pc[h] \in {"call_send", "consume_send"} /\ Enqueues(h)) =>
                  /\ replyq' = replyq
                  /\ pc'[h] \in RecvPcs]_vars

\* a consume answered by a plain Method and a call answered by ConsumeOk
\* have both returned FrameUnexpected, each having taken its one reply
C19_Witness ==
    \E h \in Handles :
        /\ opKind[h] = "consume"
        /\ pc[h] = "idle"
        /\ opSent[h] = 1
        /\ result[h] = Err(FrameUnexpected)
        /\ replyq[h] = <<>>
        /\ loopAlive
        /\ \E g \in Handles \ {h} :
              /\ opKind[g] = "call"
              /\ pc[g] = "idle"
              /\ opSent[g] = 1
              /\ result[g] = Err(FrameUnexpected)
              /\ replyq[g] = <<>>

(***************************************************************************)
(* C20: basic_publish enqueues content frames only after its Publish       *)
(* method frame was enqueued. If the server-closed check fails nothing is  *)
(* enqueued; if enqueuing the Publish method fails the error is returned   *)
(* and no content header or body of that publish is ever enqueued; so the  *)
(* loop never sees a content header that is not preceded by the method of  *)
(* the same publish.                                                       *)
(***************************************************************************)
\* what the loop has seen and will see of channel h, in order; nothing of
\* it is missing while the channel's slot is open
SeenByLoop(h) == OnWire(h) \o SelectSeq(queue, LAMBDA m : m.ch = h)

\* the messages of the current operation of thread h, queued or written
OfCurrentOp(h) ==
    {i \in 1..Len(SeenByLoop(h)) : SeenByLoop(h)[i].op = opNo[h]}

C20_ContentOnlyAfterMethod ==
    /\ [](\A h \in Handles :
            /\ opKind[h] = "publish" =>
                  /\ pc[h] \in {"pub_check", "pub_check_err", "pub_method"} =>
                        opSent[h] = 0
                  /\ pc[h] = "pub_header" => opSent[h] = 1
                  /\ pc[h] = "pub_body" => opSent[h] = 2
                  /\ opSent[h] = 0 => OfCurrentOp(h) = {}
            /\ slot[h].state = "Open" =>
                  \A i \in 1..Len(SeenByLoop(h)) :
                      SeenByLoop(h)[i].frame = "header" =>
                          /\ i > 1
                          /\ SeenByLoop(h)[i - 1].frame = "method"
                          /\ SeenByLoop(h)[i - 1].method = "basic.publish"
                          /\ SeenByLoop(h)[i - 1].op = SeenByLoop(h)[i].op)
    /\ [][\A h \in Handles :
            /\ (Enqueues(h) /\ queue'[Len(queue')].frame # "method") =>
                  /\ opKind[h] = "publish"
                  /\ queue'[Len(queue')].op = opNo[h]
                  /\ opSent[h] =
                        IF queue'[Len(queue')].frame = "header" THEN 1 ELSE 2
            /\ (pc[h] \in {"pub_check_err", "pub_method"}
                  /\ pc'[h] # pc[h] /\ ~Enqueues(h)) =>
                  /\ queue' = queue
                  /\ pc'[h] = "idle"
                  /\ result'[h].status = "Err"
                  /\ opSent'[h] = 0]_vars

\* a publish found the loop gone when it sent its method, returned
\* EventLoopDropped and enqueued nothing; the other handle's publish had
\* all three frames written
C20_Witness ==
    \E h \in Handles :
        /\ opKind[h] = "publish"
        /\ ~opStartClosed[h]
        /\ pc[h] = "idle"
        /\ result[h] = Err(EventLoopDropped)
        /\ opSent[h] = 0
        /\ OnWire(h) = <<>>
        /\ \E g \in Handles \ {h} :
              /\ Len(OnWire(g)) = 3
              /\ OnWire(g)[2].frame = "header"

====
